---- MODULE Spec2Model ----
(***************************************************************************)
(* Model of bot.py: the volunteers / blacklist tables, the per-principal   *)
(* FSM storage, and the callback and message handlers, split into steps at *)
(* their database calls (the points where a handler task is suspended and  *)
(* other handler tasks run).                                               *)
(***************************************************************************)
EXTENDS Integers, Sequences, FiniteSets, TLC

(* ---------------- bounds ---------------- *)
\* number of inbound events in one behaviour
MaxEvents == 4
\* number of handler tasks that may be suspended at a database call at once
MaxTasks == 2
\* number of chat users
NumPrincipals == 2
\* largest record count and page index of the renderer specification
MaxRows == 12
MaxPage == 3

(* ---------------- program constants ---------------- *)
PAGE_SIZE == 5
\* check_and_blacklist: total_violations >= 3
Threshold == 3

Principals == 1..NumPrincipals
Slots == 1..MaxTasks

\* message.text values: two that int() accepts and one that it rejects
Texts == {"1", "2", "x"}

\* int(message.text): the texts for which int() returns, and its value;
\* for every other text int() raises ValueError
IsInt(text) == text \in {"1", "2"}
int(text) == CASE text = "1" -> 1 [] text = "2" -> 2 [] OTHER -> 0

\* f"{n}": the decimal rendering of a non-negative integer
Digit(d) == CASE d = 0 -> "0" [] d = 1 -> "1" [] d = 2 -> "2" [] d = 3 -> "3"
              [] d = 4 -> "4" [] d = 5 -> "5" [] d = 6 -> "6" [] d = 7 -> "7"
              [] d = 8 -> "8" [] OTHER -> "9"
RECURSIVE str(_)
str(n) == IF n < 10 THEN Digit(n) ELSE str(n \div 10) \o Digit(n % 10)

\* reason written by check_and_blacklist (the Russian text transliterated)
AutoReason(total) == str(total) \o " narusheniy (opozdaniya + zamechaniya)"

(* ---------------- FSM states ---------------- *)
Idle == "None"
LatenessStates_waiting_for_id == "LatenessStates:waiting_for_id"
WarningStates_waiting_for_id == "WarningStates:waiting_for_id"
BlacklistDirectStates_waiting_for_id == "BlacklistDirectStates:waiting_for_id"
BlacklistDirectStates_waiting_for_reason == "BlacklistDirectStates:waiting_for_reason"
AddVolunteerStates_waiting_for_full_name == "AddVolunteerStates:waiting_for_full_name"
AddVolunteerStates_waiting_for_contact == "AddVolunteerStates:waiting_for_contact"
EditVolunteerStates_waiting_for_id == "EditVolunteerStates:waiting_for_id"
EditVolunteerStates_waiting_for_field == "EditVolunteerStates:waiting_for_field"
EditVolunteerStates_waiting_for_new_value == "EditVolunteerStates:waiting_for_new_value"
SearchVolunteerStates_waiting_for_query == "SearchVolunteerStates:waiting_for_query"
DeleteVolunteerStates_waiting_for_id == "DeleteVolunteerStates:waiting_for_id"
DeleteVolunteerStates_confirm_delete == "DeleteVolunteerStates:confirm_delete"

(* ---------------- callback tokens ---------------- *)
\* tokens whose branch of callbacks only sets the FSM state
MenuState(token) ==
    CASE token = "menu_lateness" -> LatenessStates_waiting_for_id
      [] token = "menu_warning" -> WarningStates_waiting_for_id
      [] token = "menu_blacklist_direct" -> BlacklistDirectStates_waiting_for_id
      [] token = "menu_add_volunteer" -> AddVolunteerStates_waiting_for_full_name
      [] token = "menu_edit_volunteer" -> EditVolunteerStates_waiting_for_id
      [] token = "menu_search" -> SearchVolunteerStates_waiting_for_query
      [] token = "menu_delete_volunteer" -> DeleteVolunteerStates_waiting_for_id
      [] OTHER -> Idle
FlowTokens == {"menu_lateness", "menu_warning", "menu_blacklist_direct",
               "menu_add_volunteer", "menu_edit_volunteer", "menu_search",
               "menu_delete_volunteer"}
\* tokens whose branch only renders a menu
RenderTokens == {"menu_manage", "menu_back"}
\* tokens whose branch reads the database and renders
ListTokens == {"menu_volunteers", "menu_blacklist"}
\* columns named by "edit_field_<name>" tokens: the two offered by the
\* keyboard, one more TEXT column, and one INT column
FieldNames == {"full_name", "contacts", "status", "lateness_count"}
TextColumns == {"full_name", "contacts", "status"}
EditFieldToken(f) == "edit_field_" \o f
EditTokens == {EditFieldToken(f) : f \in FieldNames}
\* query.data.replace("edit_field_", "")
FieldOf(token) == CHOOSE f \in FieldNames : EditFieldToken(f) = token
\* pagination tokens f"{prefix}_page_{n}"
ListKinds == {"volunteers", "blacklist"}
PageIndices == -1..MaxPage
PageToken(prefix, n) ==
    prefix \o "_page_" \o (IF n < 0 THEN "-" \o str(-n) ELSE str(n))
AllPageTokens == {PageToken(k, n) : k \in ListKinds, n \in PageIndices}
\* query.data.split("_page_") and int(parts[1])
ParsePage(token) ==
    CHOOSE t \in [prefix : ListKinds, page : PageIndices] :
        PageToken(t.prefix, t.page) = token
\* the tokens sent as callback events besides those callbacks has a branch
\* for: the first two pages of either list, and the "menu_main" button of
\* pagination_markup
PageTokens == {PageToken(k, n) : k \in ListKinds, n \in 0..1}
UnmatchedTokens == PageTokens \cup {"menu_main"}

(* ---------------- outbound renders ---------------- *)
Msg(to, kind) == [to |-> to, kind |-> kind, prefix |-> "", rows |-> <<>>,
                  prev |-> FALSE, next |-> FALSE, prevPage |-> 0, nextPage |-> 0]
\* an exception that leaves the handler; the dispatcher logs it
Raised(p) == Msg(p, "exception")

(* ---------------- tables ---------------- *)
VARIABLES volunteers, nextId, blacklist, manual,
          fsmState, fsmData, tasks, sent, nEvents
vars == <<volunteers, nextId, blacklist, manual,
          fsmState, fsmData, tasks, sent, nEvents>>
db == <<volunteers, nextId, blacklist, manual>>
fsm == <<fsmState, fsmData>>

Row(name, contacts, status, l, w) ==
    [full_name |-> name, contacts |-> contacts, status |-> status,
     lateness_count |-> l, warnings_count |-> w]

NoRows == [i \in {} |-> 0]
NoData == [k \in {} |-> 0]

(* ---------------- SQL statements ---------------- *)
\* SELECT ... FROM volunteers WHERE id = $1
Exists(vs, id) == id \in DOMAIN vs

\* UpdateLateness as a read followed by a write of the value read plus one:
\* the write of an invocation that overlaps another one on the same row is lost
UpdateLateness_lost(vs, id) ==
    IF Exists(vs, id) /\ ~\E s \in Slots : tasks[s].pc = "check_and_blacklist" /\ tasks[s].vid = id
    THEN [vs EXCEPT ![id].lateness_count = @ + 1] ELSE vs

\* UPDATE volunteers SET lateness_count = lateness_count + 1 WHERE id = $1
UpdateLateness(vs, id) ==
    IF Exists(vs, id) THEN [vs EXCEPT ![id].lateness_count = @ + 1] ELSE vs

\* UpdateWarnings with the column of UpdateLateness
UpdateWarnings_wrong_column(vs, id) ==
    IF Exists(vs, id) THEN [vs EXCEPT ![id].lateness_count = @ + 1] ELSE vs

\* UPDATE volunteers SET warnings_count = warnings_count + 1 WHERE id = $1
UpdateWarnings(vs, id) ==
    IF Exists(vs, id) THEN [vs EXCEPT ![id].warnings_count = @ + 1] ELSE vs

\* UPDATE volunteers SET status = 'Blacklisted' WHERE id = $1
UpdateStatus(vs, id) ==
    IF Exists(vs, id) THEN [vs EXCEPT ![id].status = "Blacklisted"] ELSE vs

\* InsertBlacklist as ON CONFLICT (full_name) DO UPDATE SET reason
InsertBlacklist_overwrite(bl, name, reason) ==
    IF \E i \in 1..Len(bl) : bl[i].full_name = name
    THEN [i \in 1..Len(bl) |->
            IF bl[i].full_name = name THEN [bl[i] EXCEPT !.reason = reason] ELSE bl[i]]
    ELSE Append(bl, [full_name |-> name, reason |-> reason])

\* InsertBlacklist without the UNIQUE(full_name) constraint
InsertBlacklist_no_unique(bl, name, reason) ==
    Append(bl, [full_name |-> name, reason |-> reason])

\* INSERT INTO blacklist (full_name, reason) ... ON CONFLICT DO NOTHING,
\* against UNIQUE(full_name)
InsertBlacklist(bl, name, reason) ==
    IF \E i \in 1..Len(bl) : bl[i].full_name = name
    THEN bl
    ELSE Append(bl, [full_name |-> name, reason |-> reason])

\* Existing as a lookup by full_name alone
Existing_name_only(vs, name, contacts) ==
    \E i \in DOMAIN vs : vs[i].full_name = name

\* SELECT id FROM volunteers WHERE full_name=$1 AND contacts=$2
Existing(vs, name, contacts) ==
    \E i \in DOMAIN vs : vs[i].full_name = name /\ vs[i].contacts = contacts

\* INSERT INTO volunteers (full_name, contacts): id from the SERIAL
\* sequence, the other columns from their DEFAULTs
InsertVolunteer(vs, id, name, contacts) ==
    [i \in DOMAIN vs \cup {id} |->
        IF i = id THEN Row(name, contacts, "Active", 0, 0) ELSE vs[i]]

\* DeleteVolunteer without its WHERE clause
DeleteVolunteer_all(vs, id) == NoRows

\* DELETE FROM volunteers WHERE id=$1
DeleteVolunteer(vs, id) == [i \in DOMAIN vs \ {id} |-> vs[i]]

\* UPDATE volunteers SET {field}=$1 WHERE id=$2, for a TEXT column
UpdateField(vs, id, field, value) ==
    IF ~Exists(vs, id) THEN vs
    ELSE CASE field = "full_name" -> [vs EXCEPT ![id].full_name = value]
           [] field = "contacts" -> [vs EXCEPT ![id].contacts = value]
           [] field = "status" -> [vs EXCEPT ![id].status = value]
           [] OTHER -> vs

\* total_violations of a fetched row
total_violations(row) == row.lateness_count + row.warnings_count

(* ---------------- FSM storage ---------------- *)
\* state.update_data(key=value): merge, last write wins
update_data(d, k, v) == [x \in DOMAIN d \cup {k} |-> IF x = k THEN v ELSE d[x]]
Has(d, k) == k \in DOMAIN d

(* ---------------- handler tasks ---------------- *)
IdleTask == [pc |-> "idle", p |-> 0, vid |-> 0, text |-> "", name |-> "",
             total |-> 0, field |-> "", prefix |-> ""]
Task(pc, p) == [IdleTask EXCEPT !.pc = pc, !.p = p]
Busy(s) == tasks[s].pc # "idle"
\* the slot a newly suspended handler occupies
FreeSlot(s) == ~Busy(s) /\ \A r \in Slots : r < s => Busy(r)

(* ---------------- paginated list rendering ---------------- *)
\* rows of get_volunteers: SELECT ... FROM volunteers ORDER BY id (the ids)
get_volunteers(vs) ==
    [k \in 1..Cardinality(DOMAIN vs) |->
        CHOOSE i \in DOMAIN vs : Cardinality({j \in DOMAIN vs : j <= i}) = k]

\* rows of get_blacklist: SELECT ... FROM blacklist ORDER BY id (the ids)
get_blacklist(bl) == [k \in 1..Len(bl) |-> k]

\* Python's rows[start:end]
PyIndex(i, n) == IF i < 0 THEN (IF i + n < 0 THEN 0 ELSE i + n)
                 ELSE (IF i > n THEN n ELSE i)
PySlice(rows, start, end) ==
    LET a == PyIndex(start, Len(rows))
        b == PyIndex(end, Len(rows))
    IN  IF a < b THEN SubSeq(rows, a + 1, b) ELSE <<>>

\* total_pages rounding down
total_pages_floor(n) == n \div PAGE_SIZE

total_pages(n) == (n + PAGE_SIZE - 1) \div PAGE_SIZE

\* the navigation row of pagination_markup
pagination_markup(page, total, prefix) ==
    [prev |-> page > 0, prevPage |-> page - 1,
     next |-> page < total - 1, nextPage |-> page + 1]

show_records(to, rows, page, prefix) ==
    IF rows = <<>>
    THEN Msg(to, "empty")
    ELSE LET start == page * PAGE_SIZE
             end == start + PAGE_SIZE
             nav == pagination_markup(page, total_pages(Len(rows)), prefix)
         IN  [to |-> to, kind |-> "list", prefix |-> prefix,
              rows |-> PySlice(rows, start, end),
              prev |-> nav.prev, next |-> nav.next,
              prevPage |-> IF nav.prev THEN nav.prevPage ELSE 0,
              nextPage |-> IF nav.next THEN nav.nextPage ELSE 0]

Rows(prefix) == IF prefix = "volunteers" THEN get_volunteers(volunteers)
                ELSE get_blacklist(blacklist)

(* ---------------- dispatcher ---------------- *)
\* the two @dp.callback_query() registrations, in order; neither has a
\* filter, and the observer calls the first handler whose filters pass
CallbackHandlers == <<"callbacks", "paginate_records">>
trigger(handlers) == handlers[1]

Accept == nEvents < MaxEvents /\ nEvents' = nEvents + 1
\* clear as state.set_state(None): the scratch data is kept
clear_state_only(p) == /\ fsmState' = [fsmState EXCEPT ![p] = Idle]
                       /\ UNCHANGED fsmData

clear(p) == /\ fsmState' = [fsmState EXCEPT ![p] = Idle]
            /\ fsmData' = [fsmData EXCEPT ![p] = NoData]
Suspend(s, t) == tasks' = [tasks EXCEPT ![s] = t]
Finish(s) == tasks' = [tasks EXCEPT ![s] = IdleTask]

(* ---------------- callbacks ---------------- *)
\* menu_volunteers, menu_blacklist
callbacks_list(p, token) ==
    /\ Accept
    /\ token \in ListTokens
    /\ LET prefix == IF token = "menu_volunteers" THEN "volunteers" ELSE "blacklist"
       IN  sent' = <<show_records(p, Rows(prefix), 0, prefix)>>
    /\ UNCHANGED <<db, fsm, tasks>>

\* menu_lateness, menu_warning, menu_blacklist_direct, menu_add_volunteer,
\* menu_edit_volunteer, menu_search, menu_delete_volunteer
callbacks_flow(p, token) ==
    /\ Accept
    /\ token \in FlowTokens
    /\ fsmState' = [fsmState EXCEPT ![p] = MenuState(token)]
    /\ sent' = <<Msg(p, "prompt")>>
    /\ UNCHANGED <<db, fsmData, tasks>>

\* menu_manage, menu_back
callbacks_menu(p, token) ==
    /\ Accept
    /\ token \in RenderTokens
    /\ sent' = <<Msg(p, IF token = "menu_manage" THEN "manage_menu" ELSE "main_menu")>>
    /\ UNCHANGED <<db, fsm, tasks>>

\* menu_statistics: four aggregate reads, one render
callbacks_statistics(p) ==
    /\ Accept
    /\ sent' = <<Msg(p, "statistics")>>
    /\ UNCHANGED <<db, fsm, tasks>>

\* confirm_delete_yes up to the DELETE: data.get("volunteer_id"), which is
\* None (here 0, an id no row has) when the key is absent
callbacks_confirm_delete_yes(p, s) ==
    /\ Accept
    /\ FreeSlot(s)
    /\ Suspend(s, [Task("delete", p) EXCEPT
                     !.vid = IF Has(fsmData[p], "volunteer_id")
                             THEN fsmData[p].volunteer_id ELSE 0])
    /\ sent' = <<>>
    /\ UNCHANGED <<db, fsm>>

\* confirm_delete_yes: the DELETE, the render and state.clear()
callbacks_delete(s) ==
    /\ tasks[s].pc = "delete"
    /\ volunteers' = DeleteVolunteer(volunteers, tasks[s].vid)
    /\ sent' = <<Msg(tasks[s].p, "deleted")>>
    /\ clear(tasks[s].p)
    /\ Finish(s)
    /\ UNCHANGED <<nextId, blacklist, manual, nEvents>>

callbacks_confirm_delete_no(p) ==
    /\ Accept
    /\ sent' = <<Msg(p, "cancelled")>>
    /\ clear(p)
    /\ UNCHANGED <<db, tasks>>

\* edit_field_<name>
callbacks_edit_field(p, token) ==
    /\ Accept
    /\ token \in EditTokens
    /\ fsmData' = [fsmData EXCEPT ![p] = update_data(@, "field", FieldOf(token))]
    /\ fsmState' = [fsmState EXCEPT ![p] = EditVolunteerStates_waiting_for_new_value]
    /\ sent' = <<Msg(p, "prompt")>>
    /\ UNCHANGED <<db, tasks>>

\* a token no branch of callbacks matches: "<prefix>_page_<n>", menu_main
callbacks_unmatched(p, token) ==
    /\ Accept
    /\ token \notin ListTokens \cup FlowTokens \cup RenderTokens \cup EditTokens
    /\ token \notin {"menu_statistics", "confirm_delete_yes", "confirm_delete_no"}
    /\ sent' = <<>>
    /\ UNCHANGED <<db, fsm, tasks>>

\* paginate_records, the second registered callback handler
paginate_records(p, token) ==
    /\ Accept
    /\ token \in AllPageTokens
    /\ LET t == ParsePage(token)
       IN  sent' = <<show_records(p, Rows(t.prefix), t.page, t.prefix)>>
    /\ UNCHANGED <<db, fsm, tasks>>

\* menu_volunteers, menu_blacklist, menu_statistics when the read raises:
\* callbacks has no try statement, the exception leaves the handler
callbacks_storage_error(p, token) ==
    /\ Accept
    /\ token \in ListTokens \cup {"menu_statistics"}
    /\ sent' = <<Raised(p)>>
    /\ UNCHANGED <<db, fsm, tasks>>

\* a callback event, given to the handler the observer selects
callback_query(p) ==
    /\ trigger(CallbackHandlers) = "callbacks"
    /\ \/ \E token \in ListTokens : callbacks_list(p, token)
       \/ \E token \in FlowTokens : callbacks_flow(p, token)
       \/ \E token \in RenderTokens : callbacks_menu(p, token)
       \/ callbacks_statistics(p)
       \/ \E s \in Slots : callbacks_confirm_delete_yes(p, s)
       \/ callbacks_confirm_delete_no(p)
       \/ \E token \in EditTokens : callbacks_edit_field(p, token)
       \/ \E token \in UnmatchedTokens : callbacks_unmatched(p, token)
       \/ \E token \in ListTokens \cup {"menu_statistics"} : callbacks_storage_error(p, token)

(* ---------------- handle_messages: violations ---------------- *)
ViolationStates == {LatenessStates_waiting_for_id, WarningStates_waiting_for_id}

\* waiting_for_id of LatenessStates / WarningStates, int() succeeds: the
\* handler is suspended at the UPDATE of add_lateness / add_warning
handle_messages_violation(p, text, s) ==
    /\ Accept
    /\ fsmState[p] \in ViolationStates
    /\ IsInt(text)
    /\ FreeSlot(s)
    /\ Suspend(s, [Task(IF fsmState[p] = LatenessStates_waiting_for_id
                        THEN "add_lateness" ELSE "add_warning", p)
                     EXCEPT !.vid = int(text)])
    /\ sent' = <<>>
    /\ UNCHANGED <<db, fsm>>

\* the same states, int() raises ValueError: except, then finally
handle_messages_violation_invalid(p, text) ==
    /\ Accept
    /\ fsmState[p] \in ViolationStates
    /\ ~IsInt(text)
    /\ sent' = <<Msg(p, "need_number"), Msg(p, "main_menu")>>
    /\ clear(p)
    /\ UNCHANGED <<db, tasks>>

add_lateness(s) ==
    /\ tasks[s].pc = "add_lateness"
    /\ volunteers' = UpdateLateness(volunteers, tasks[s].vid)
    /\ tasks' = [tasks EXCEPT ![s].pc = "check_and_blacklist"]
    /\ sent' = <<>>
    /\ UNCHANGED <<nextId, blacklist, manual, fsm, nEvents>>

add_warning(s) ==
    /\ tasks[s].pc = "add_warning"
    /\ volunteers' = UpdateWarnings(volunteers, tasks[s].vid)
    /\ tasks' = [tasks EXCEPT ![s].pc = "check_and_blacklist"]
    /\ sent' = <<>>
    /\ UNCHANGED <<nextId, blacklist, manual, fsm, nEvents>>

\* the promotion condition on the fetched row
Promote(row) == total_violations(row) >= Threshold /\ row.status # "Blacklisted"

\* check_and_blacklist: the SELECT and the branch on its row; the handler's
\* finally clause follows the two branches that return
check_and_blacklist(s) ==
    /\ tasks[s].pc = "check_and_blacklist"
    /\ LET t == tasks[s]
       IN  IF ~Exists(volunteers, t.vid)
           THEN /\ sent' = <<Msg(t.p, "not_found"), Msg(t.p, "main_menu")>>
                /\ clear(t.p)
                /\ Finish(s)
           ELSE IF Promote(volunteers[t.vid])
           THEN /\ tasks' = [tasks EXCEPT ![s] =
                      [t EXCEPT !.pc = "check_and_blacklist_status",
                                !.name = volunteers[t.vid].full_name,
                                !.total = total_violations(volunteers[t.vid])]]
                /\ sent' = <<>>
                /\ UNCHANGED fsm
           ELSE /\ sent' = <<Msg(t.p, "recorded"), Msg(t.p, "main_menu")>>
                /\ clear(t.p)
                /\ Finish(s)
    /\ UNCHANGED <<db, nEvents>>

check_and_blacklist_status(s) ==
    /\ tasks[s].pc = "check_and_blacklist_status"
    /\ volunteers' = UpdateStatus(volunteers, tasks[s].vid)
    /\ tasks' = [tasks EXCEPT ![s].pc = "check_and_blacklist_insert"]
    /\ sent' = <<>>
    /\ UNCHANGED <<nextId, blacklist, manual, fsm, nEvents>>

check_and_blacklist_insert(s) ==
    /\ tasks[s].pc = "check_and_blacklist_insert"
    /\ blacklist' = InsertBlacklist(blacklist, tasks[s].name, AutoReason(tasks[s].total))
    /\ sent' = <<Msg(tasks[s].p, "promoted"), Msg(tasks[s].p, "main_menu")>>
    /\ clear(tasks[s].p)
    /\ Finish(s)
    /\ UNCHANGED <<volunteers, nextId, manual, nEvents>>

(* ---------------- handle_messages: manual blacklist ---------------- *)
\* the three waiting_for_id branches that store the id and move on
IdThenState(st) ==
    CASE st = BlacklistDirectStates_waiting_for_id -> BlacklistDirectStates_waiting_for_reason
      [] st = EditVolunteerStates_waiting_for_id -> EditVolunteerStates_waiting_for_field
      [] OTHER -> st

handle_messages_store_id(p, text) ==
    /\ Accept
    /\ fsmState[p] \in {BlacklistDirectStates_waiting_for_id, EditVolunteerStates_waiting_for_id}
    /\ IF IsInt(text)
       THEN /\ fsmData' = [fsmData EXCEPT ![p] = update_data(@, "volunteer_id", int(text))]
            /\ fsmState' = [fsmState EXCEPT ![p] = IdThenState(@)]
            /\ sent' = <<Msg(p, "prompt")>>
       ELSE /\ sent' = <<Msg(p, "need_number")>>
            /\ UNCHANGED fsm
    /\ UNCHANGED <<db, tasks>>

\* waiting_for_reason: data['volunteer_id'] raises KeyError when absent
handle_messages_reason(p, text, s) ==
    /\ Accept
    /\ fsmState[p] = BlacklistDirectStates_waiting_for_reason
    /\ IF Has(fsmData[p], "volunteer_id")
       THEN /\ FreeSlot(s)
            /\ Suspend(s, [Task("add_direct_blacklist", p) EXCEPT
                             !.vid = fsmData[p].volunteer_id, !.text = text])
            /\ sent' = <<>>
       ELSE /\ sent' = <<Raised(p)>>
            /\ UNCHANGED tasks
    /\ UNCHANGED <<db, fsm>>

add_direct_blacklist(s) ==
    /\ tasks[s].pc = "add_direct_blacklist"
    /\ LET t == tasks[s]
       IN  IF ~Exists(volunteers, t.vid)
           THEN /\ sent' = <<Msg(t.p, "not_found"), Msg(t.p, "main_menu")>>
                /\ clear(t.p)
                /\ Finish(s)
           ELSE /\ tasks' = [tasks EXCEPT ![s] =
                      [t EXCEPT !.pc = "add_direct_blacklist_status",
                                !.name = volunteers[t.vid].full_name]]
                /\ sent' = <<>>
                /\ UNCHANGED fsm
    /\ UNCHANGED <<db, nEvents>>

\* manual records the ids this UPDATE has been applied to
add_direct_blacklist_status(s) ==
    /\ tasks[s].pc = "add_direct_blacklist_status"
    /\ volunteers' = UpdateStatus(volunteers, tasks[s].vid)
    /\ manual' = IF Exists(volunteers, tasks[s].vid) THEN manual \cup {tasks[s].vid} ELSE manual
    /\ tasks' = [tasks EXCEPT ![s].pc = "add_direct_blacklist_insert"]
    /\ sent' = <<>>
    /\ UNCHANGED <<nextId, blacklist, fsm, nEvents>>

add_direct_blacklist_insert(s) ==
    /\ tasks[s].pc = "add_direct_blacklist_insert"
    /\ blacklist' = InsertBlacklist(blacklist, tasks[s].name, tasks[s].text)
    /\ sent' = <<Msg(tasks[s].p, "blacklisted"), Msg(tasks[s].p, "main_menu")>>
    /\ clear(tasks[s].p)
    /\ Finish(s)
    /\ UNCHANGED <<volunteers, nextId, manual, nEvents>>

(* ---------------- handle_messages: add ---------------- *)
\* data.get("full_name") of a session without that key
None == "<None>"

handle_messages_full_name(p, text) ==
    /\ Accept
    /\ fsmState[p] = AddVolunteerStates_waiting_for_full_name
    /\ fsmData' = [fsmData EXCEPT ![p] = update_data(@, "full_name", text)]
    /\ fsmState' = [fsmState EXCEPT ![p] = AddVolunteerStates_waiting_for_contact]
    /\ sent' = <<Msg(p, "prompt")>>
    /\ UNCHANGED <<db, tasks>>

handle_messages_contact(p, text, s) ==
    /\ Accept
    /\ fsmState[p] = AddVolunteerStates_waiting_for_contact
    /\ FreeSlot(s)
    /\ Suspend(s, [Task("add_volunteer", p) EXCEPT
                     !.name = IF Has(fsmData[p], "full_name")
                              THEN fsmData[p].full_name ELSE None,
                     !.text = text])
    /\ sent' = <<>>
    /\ UNCHANGED <<db, fsm>>

\* add_volunteer: the SELECT; ValueError when a row is found
add_volunteer(s) ==
    /\ tasks[s].pc = "add_volunteer"
    /\ LET t == tasks[s]
       IN  IF Existing(volunteers, t.name, t.text)
           THEN /\ sent' = <<Msg(t.p, "duplicate"), Msg(t.p, "main_menu")>>
                /\ clear(t.p)
                /\ Finish(s)
           ELSE /\ tasks' = [tasks EXCEPT ![s].pc = "add_volunteer_insert"]
                /\ sent' = <<>>
                /\ UNCHANGED fsm
    /\ UNCHANGED <<db, nEvents>>

\* add_volunteer: the INSERT (full_name is NOT NULL), then the handler's
\* finally clause
add_volunteer_insert(s) ==
    /\ tasks[s].pc = "add_volunteer_insert"
    /\ LET t == tasks[s]
       IN  IF t.name = None
           THEN /\ sent' = <<Msg(t.p, "main_menu"), Raised(t.p)>>
                /\ UNCHANGED <<volunteers, nextId>>
           ELSE /\ volunteers' = InsertVolunteer(volunteers, nextId, t.name, t.text)
                /\ nextId' = nextId + 1
                /\ sent' = <<Msg(t.p, "added"), Msg(t.p, "main_menu")>>
    /\ clear(tasks[s].p)
    /\ Finish(s)
    /\ UNCHANGED <<blacklist, manual, nEvents>>

(* ---------------- handle_messages: edit ---------------- *)
\* waiting_for_new_value: data['volunteer_id'] / data['field'] raise
\* KeyError when absent
handle_messages_new_value(p, text, s) ==
    /\ Accept
    /\ fsmState[p] = EditVolunteerStates_waiting_for_new_value
    /\ IF Has(fsmData[p], "volunteer_id") /\ Has(fsmData[p], "field")
       THEN /\ FreeSlot(s)
            /\ Suspend(s, [Task("update_field", p) EXCEPT
                             !.vid = fsmData[p].volunteer_id,
                             !.field = fsmData[p].field, !.text = text])
            /\ sent' = <<>>
       ELSE /\ sent' = <<Raised(p)>>
            /\ UNCHANGED tasks
    /\ UNCHANGED <<db, fsm>>

\* the UPDATE with the interpolated column; a str argument for an INT
\* column is rejected by the driver and the exception leaves the handler
update_field(s) ==
    /\ tasks[s].pc = "update_field"
    /\ LET t == tasks[s]
       IN  IF t.field \in TextColumns
           THEN /\ volunteers' = UpdateField(volunteers, t.vid, t.field, t.text)
                /\ sent' = <<Msg(t.p, "updated"), Msg(t.p, "main_menu")>>
                /\ clear(t.p)
           ELSE /\ sent' = <<Raised(t.p)>>
                /\ UNCHANGED <<volunteers, fsm>>
    /\ Finish(s)
    /\ UNCHANGED <<nextId, blacklist, manual, nEvents>>

(* ---------------- handle_messages: search ---------------- *)
handle_messages_query(p, text, s) ==
    /\ Accept
    /\ fsmState[p] = SearchVolunteerStates_waiting_for_query
    /\ FreeSlot(s)
    /\ Suspend(s, [Task("search", p) EXCEPT !.text = text])
    /\ sent' = <<>>
    /\ UNCHANGED <<db, fsm>>

\* the ILIKE query and its render (the matched rows are not kept)
search(s) ==
    /\ tasks[s].pc = "search"
    /\ sent' = <<Msg(tasks[s].p, "search_results")>>
    /\ clear(tasks[s].p)
    /\ Finish(s)
    /\ UNCHANGED <<db, nEvents>>

(* ---------------- handle_messages: delete ---------------- *)
handle_messages_delete_id(p, text, s) ==
    /\ Accept
    /\ fsmState[p] = DeleteVolunteerStates_waiting_for_id
    /\ IF IsInt(text)
       THEN /\ FreeSlot(s)
            /\ Suspend(s, [Task("delete_select", p) EXCEPT !.vid = int(text)])
            /\ sent' = <<>>
       ELSE /\ sent' = <<Msg(p, "need_number")>>
            /\ UNCHANGED tasks
    /\ UNCHANGED <<db, fsm>>

\* delete_select without the test of the fetched row
delete_select_unchecked(s) ==
    /\ tasks[s].pc = "delete_select"
    /\ LET t == tasks[s]
       IN  /\ fsmData' = [fsmData EXCEPT ![t.p] = update_data(@, "volunteer_id", t.vid)]
           /\ fsmState' = [fsmState EXCEPT ![t.p] = DeleteVolunteerStates_confirm_delete]
           /\ sent' = <<Msg(t.p, "confirm")>>
    /\ Finish(s)
    /\ UNCHANGED <<db, nEvents>>

delete_select(s) ==
    /\ tasks[s].pc = "delete_select"
    /\ LET t == tasks[s]
       IN  IF ~Exists(volunteers, t.vid)
           THEN /\ sent' = <<Msg(t.p, "not_found")>>
                /\ clear(t.p)
           ELSE /\ fsmData' = [fsmData EXCEPT ![t.p] = update_data(@, "volunteer_id", t.vid)]
                /\ fsmState' = [fsmState EXCEPT ![t.p] = DeleteVolunteerStates_confirm_delete]
                /\ sent' = <<Msg(t.p, "confirm")>>
    /\ Finish(s)
    /\ UNCHANGED <<db, nEvents>>

(* ---------------- handle_messages: no branch; start ---------------- *)
NoBranchStates == {Idle, EditVolunteerStates_waiting_for_field,
                   DeleteVolunteerStates_confirm_delete}

handle_messages_no_branch(p, text) ==
    /\ Accept
    /\ fsmState[p] \in NoBranchStates
    /\ sent' = <<>>
    /\ UNCHANGED <<db, fsm, tasks>>

\* /start
start(p) ==
    /\ Accept
    /\ sent' = <<Msg(p, "main_menu")>>
    /\ UNCHANGED <<db, fsm, tasks>>

\* handle_messages on one text
handle_messages(p, text) ==
    \/ \E s \in Slots : handle_messages_violation(p, text, s)
    \/ handle_messages_violation_invalid(p, text)
    \/ handle_messages_store_id(p, text)
    \/ \E s \in Slots : handle_messages_reason(p, text, s)
    \/ handle_messages_full_name(p, text)
    \/ \E s \in Slots : handle_messages_contact(p, text, s)
    \/ \E s \in Slots : handle_messages_new_value(p, text, s)
    \/ \E s \in Slots : handle_messages_query(p, text, s)
    \/ \E s \in Slots : handle_messages_delete_id(p, text, s)
    \/ handle_messages_no_branch(p, text)

\* a text event
message(p) == \E text \in Texts : handle_messages(p, text)

\* the steps of the handlers whose database calls are inside a
\* try ... finally statement (lateness, warning, add)
FinallyPcs == {"add_lateness", "add_warning", "check_and_blacklist",
               "check_and_blacklist_status", "check_and_blacklist_insert",
               "add_volunteer", "add_volunteer_insert"}

\* The database call a suspended handler waits on raises a driver error.
\* No except clause names it (the only ones catch ValueError), so it leaves
\* the handler: through the finally clause where there is one, and
\* otherwise before the handler's state.clear() and its renders.
storage_error(s) ==
    /\ Busy(s)
    /\ LET t == tasks[s]
       IN  IF t.pc \in FinallyPcs
           THEN /\ sent' = <<Msg(t.p, "main_menu"), Raised(t.p)>>
                /\ clear(t.p)
           ELSE /\ sent' = <<Raised(t.p)>>
                /\ UNCHANGED fsm
    /\ Finish(s)
    /\ UNCHANGED <<db, nEvents>>

\* a suspended handler resumes at its database call
resume(s) ==
    \/ callbacks_delete(s)
    \/ add_lateness(s)
    \/ add_warning(s)
    \/ check_and_blacklist(s)
    \/ check_and_blacklist_status(s)
    \/ check_and_blacklist_insert(s)
    \/ add_direct_blacklist(s)
    \/ add_direct_blacklist_status(s)
    \/ add_direct_blacklist_insert(s)
    \/ add_volunteer(s)
    \/ add_volunteer_insert(s)
    \/ update_field(s)
    \/ search(s)
    \/ delete_select(s)
    \/ storage_error(s)

(* ---------------- initial states ---------------- *)
\* The FSM storage is in memory and starts empty; the tables are created
\* IF NOT EXISTS, so they hold what earlier runs left: nothing, or one of
\* these contents.  The first row's name is one a user of the model can
\* type, and the two rows share their contacts, so that the add flow can
\* meet an existing (full_name, contacts) pair and a rename can produce one.
InitDBs ==
    { [volunteers |-> NoRows, nextId |-> 1, blacklist |-> <<>>],
      [volunteers |-> (1 :> Row("x", "1", "Active", 2, 0)
                       @@ 2 :> Row("Bob", "1", "Blacklisted", 1, 2)),
       nextId |-> 3,
       blacklist |-> <<[full_name |-> "Bob", reason |-> AutoReason(3)]>>] }

Init ==
    /\ \E d \in InitDBs :
          /\ volunteers = d.volunteers
          /\ nextId = d.nextId
          /\ blacklist = d.blacklist
    /\ manual = {}
    /\ fsmState = [p \in Principals |-> Idle]
    /\ fsmData = [p \in Principals |-> NoData]
    /\ tasks = [s \in Slots |-> IdleTask]
    /\ sent = <<>>
    /\ nEvents = 0

Next ==
    \/ \E p \in Principals : callback_query(p)
    \/ \E p \in Principals : message(p)
    \/ \E p \in Principals : start(p)
    \/ \E s \in Slots : resume(s)

Spec == Init /\ [][Next]_vars

(* ---------------- the renderer on its own ---------------- *)
\* Tables of n volunteers, each promoted after three latenesses, as n add
\* flows and 3n lateness flows leave them.
PromotedRow(i) == Row("V" \o str(i), str(i), "Blacklisted", 3, 0)
InitPage ==
    /\ \E n \in 0..MaxRows :
          /\ volunteers = [i \in 1..n |-> PromotedRow(i)]
          /\ nextId = n + 1
          /\ blacklist = [i \in 1..n |->
                            [full_name |-> PromotedRow(i).full_name,
                             reason |-> AutoReason(3)]]
    /\ manual = {}
    /\ fsmState = [p \in Principals |-> Idle]
    /\ fsmData = [p \in Principals |-> NoData]
    /\ tasks = [s \in Slots |-> IdleTask]
    /\ sent = <<>>
    /\ nEvents = 0

\* paginate_records called with every token of its shape
NextPage ==
    \E p \in Principals, token \in AllPageTokens : paginate_records(p, token)

SpecPage == InitPage /\ [][NextPage]_vars

(* ======================= properties ======================= *)
LedgerPcs == {"add_lateness", "add_warning", "check_and_blacklist",
              "check_and_blacklist_status", "check_and_blacklist_insert",
              "add_direct_blacklist", "add_direct_blacklist_status",
              "add_direct_blacklist_insert"}
NoLedgerInProgress == \A s \in Slots : tasks[s].pc \notin LedgerPcs
AllIdle == \A s \in Slots : ~Busy(s)
Total(i) == total_violations(volunteers[i])

\* C1: whenever no record_lateness / record_warning / apply_manual_blacklist
\* is in progress, a volunteer's status is Blacklisted exactly when its
\* lateness_count + warnings_count is at least 3 or a manual blacklist was
\* applied to it.
C1_StatusIffViolations ==
    NoLedgerInProgress =>
        \A i \in DOMAIN volunteers :
            (volunteers[i].status = "Blacklisted")
                <=> (Total(i) >= Threshold \/ i \in manual)

\* record_lateness invocations on id that have not yet run their UPDATE
PendingLateness(ts, id) ==
    Cardinality({s \in Slots : ts[s].pc = "add_lateness" /\ ts[s].vid = id})

\* C2: no increment of concurrent record_lateness invocations is lost: for a
\* volunteer that exists before and after a step, lateness_count plus the
\* number of invocations still to run their UPDATE never drops, and grows by
\* one exactly when a new invocation starts; so N invocations leave
\* lateness_count exactly N higher once all have completed (a step in which
\* the database call itself raises is not a completed invocation).
C2_NoLostLateness ==
    [][\A id \in DOMAIN volunteers \cap DOMAIN volunteers' :
          (\A s \in Slots : ~storage_error(s)) =>
          volunteers'[id].lateness_count + PendingLateness(tasks', id)
            = volunteers[id].lateness_count + PendingLateness(tasks, id)
              + (IF PendingLateness(tasks', id) > PendingLateness(tasks, id)
                 THEN 1 ELSE 0)]_vars

\* two record_lateness invocations on volunteer 1 have both run their UPDATE
\* before either ran its promotion check, and both increments are counted
C2_Witness ==
    /\ tasks[1].pc = "check_and_blacklist" /\ tasks[1].vid = 1
    /\ tasks[2].pc = "check_and_blacklist" /\ tasks[2].vid = 1
    /\ Exists(volunteers, 1)
    /\ volunteers[1].lateness_count = 4

\* an invocation between its counter increment and the end of its promotion
\* check
InPromotionCheck(s) ==
    tasks[s].pc \in {"check_and_blacklist", "check_and_blacklist_status",
                     "check_and_blacklist_insert"}

\* C3: increment and promotion check of one volunteer are one atomic unit:
\* no other invocation on the same id has run its increment while one is
\* between its own increment and the end of its promotion check.
C3_AtomicPerVolunteer ==
    \A s1, s2 \in Slots :
        (s1 # s2 /\ InPromotionCheck(s1) /\ InPromotionCheck(s2))
            => tasks[s1].vid # tasks[s2].vid

\* C4: the blacklist holds at most one entry per full_name.
C4_OneEntryPerName ==
    \A i, j \in 1..Len(blacklist) :
        blacklist[i].full_name = blacklist[j].full_name => i = j

\* two promotions of volunteer 1 raced (its two increments were both counted
\* before either check, so both checks took the promotion branch) and both
\* have finished, leaving one entry for its name
C4_Witness ==
    /\ AllIdle
    /\ Len(sent) = 2 /\ sent[1].kind = "promoted"
    /\ Exists(volunteers, 1) /\ Total(1) = 4
    /\ Cardinality({i \in 1..Len(blacklist) :
                      blacklist[i].full_name = volunteers[1].full_name}) = 1

HasEntry(bl, name) == \E i \in 1..Len(bl) : bl[i].full_name = name

\* C5: apply_manual_blacklist on an existing volunteer sets its status to
\* Blacklisted whatever its counters and status were, changing nothing else
\* of any volunteer, and upserts an entry for the full_name it fetched: with
\* no entry of that name, one is appended with exactly the given reason; with
\* one, the blacklist is left as it is (so a second application changes
\* nothing).  The steps are those whose database call returns.
C5_ManualBlacklist ==
    [][\A s \in Slots :
          LET t == tasks[s] IN
          /\ (t.pc = "add_direct_blacklist" /\ tasks'[s].pc = "add_direct_blacklist_status")
                => /\ Exists(volunteers, t.vid)
                   /\ tasks'[s].name = volunteers[t.vid].full_name
                   /\ tasks'[s].text = t.text /\ tasks'[s].vid = t.vid
          /\ (t.pc = "add_direct_blacklist_status" /\ tasks'[s].pc # t.pc
              /\ ~storage_error(s) /\ Exists(volunteers, t.vid))
                => /\ volunteers' = [volunteers EXCEPT ![t.vid].status = "Blacklisted"]
                   /\ tasks'[s].name = t.name /\ tasks'[s].text = t.text
          /\ (t.pc = "add_direct_blacklist_insert" /\ tasks'[s].pc # t.pc
              /\ ~storage_error(s))
                => IF HasEntry(blacklist, t.name)
                   THEN blacklist' = blacklist
                   ELSE blacklist' = blacklist \o <<[full_name |-> t.name, reason |-> t.text]>>
      ]_vars

\* a manual blacklist of volunteer 1, which has fewer than 3 violations, has
\* finished: it is Blacklisted and its name has an entry with a submitted
\* reason
C5_Witness ==
    /\ AllIdle
    /\ Len(sent) = 2 /\ sent[1].kind = "blacklisted"
    /\ Exists(volunteers, 1) /\ Total(1) < Threshold
    /\ volunteers[1].status = "Blacklisted" /\ 1 \in manual
    /\ \E i \in 1..Len(blacklist) :
          /\ blacklist[i].full_name = volunteers[1].full_name
          /\ blacklist[i].reason \in Texts

\* C6: the UPDATE of record_lateness on an id with no volunteer changes no
\* volunteer and no blacklist entry, and its check then reports not-found,
\* again changing neither table; on an existing id it raises that
\* volunteer's lateness_count by exactly 1, leaves every other column and
\* volunteer as it was, and goes on to the promotion check. record_warning
\* does the same on warnings_count.  The steps are those whose database
\* call returns.
C6_RecordViolation ==
    [][\A s \in Slots :
          LET t == tasks[s] IN
          /\ (t.pc = "add_lateness" /\ tasks'[s].pc # t.pc /\ ~storage_error(s))
                => /\ tasks'[s].pc = "check_and_blacklist" /\ tasks'[s].vid = t.vid
                   /\ blacklist' = blacklist
                   /\ IF Exists(volunteers, t.vid)
                      THEN volunteers' = [volunteers EXCEPT
                             ![t.vid].lateness_count = volunteers[t.vid].lateness_count + 1]
                      ELSE volunteers' = volunteers
          /\ (t.pc = "add_warning" /\ tasks'[s].pc # t.pc /\ ~storage_error(s))
                => /\ tasks'[s].pc = "check_and_blacklist" /\ tasks'[s].vid = t.vid
                   /\ blacklist' = blacklist
                   /\ IF Exists(volunteers, t.vid)
                      THEN volunteers' = [volunteers EXCEPT
                             ![t.vid].warnings_count = volunteers[t.vid].warnings_count + 1]
                      ELSE volunteers' = volunteers
          /\ (t.pc = "check_and_blacklist" /\ tasks'[s].pc # t.pc
              /\ ~storage_error(s) /\ ~Exists(volunteers, t.vid))
                => /\ tasks'[s].pc = "idle"
                   /\ \E i \in 1..Len(sent') :
                         sent'[i].kind = "not_found" /\ sent'[i].to = t.p
                   /\ volunteers' = volunteers /\ blacklist' = blacklist
      ]_vars

\* record_warning has run its UPDATE on volunteer 1: one more warning, the
\* latenesses as before
C6_Witness ==
    \E s \in Slots :
        /\ tasks[s].pc = "check_and_blacklist" /\ tasks[s].vid = 1
        /\ Exists(volunteers, 1)
        /\ volunteers[1].warnings_count = 1 /\ volunteers[1].lateness_count = 2

\* record_lateness has run its UPDATE on an id that has no volunteer
C6_WitnessNotFound ==
    \E s \in Slots :
        tasks[s].pc = "check_and_blacklist" /\ ~Exists(volunteers, tasks[s].vid)

\* the states that await a numeric id
IdStates == {LatenessStates_waiting_for_id, WarningStates_waiting_for_id,
             BlacklistDirectStates_waiting_for_id,
             EditVolunteerStates_waiting_for_id,
             DeleteVolunteerStates_waiting_for_id}

\* C7: in a state that awaits a numeric id, a text that is no integer leaves
\* the session in that state with its scratch data unchanged.
C7_RepromptInPlace ==
    [][\A p \in Principals, text \in Texts :
          (fsmState[p] \in IdStates /\ ~IsInt(text) /\ handle_messages(p, text))
              => (fsmState'[p] = fsmState[p] /\ fsmData'[p] = fsmData[p])]_vars

\* C8: a callback event with a pagination token renders the requested page
\* of that list, in every session state, and leaves the session as it was.
C8_PaginationHandled ==
    [][\A p \in Principals, token \in PageTokens :
          (callback_query(p) /\ callbacks_unmatched(p, token))
              => /\ LET t == ParsePage(token)
                    IN  sent' = <<show_records(p, Rows(t.prefix), t.page, t.prefix)>>
                 /\ fsmState'[p] = fsmState[p] /\ fsmData'[p] = fsmData[p]]_vars

\* the rows of a list render of records [5p, min(5p+5, c))
PageRows(rows, page) ==
    LET c == Len(rows)
        from == PAGE_SIZE * page
        to == IF from + PAGE_SIZE < c THEN from + PAGE_SIZE ELSE c
    IN  [k \in 1..(to - from) |-> rows[from + k]]

WithPair(vs, name, contacts) ==
    {i \in DOMAIN vs : vs[i].full_name = name /\ vs[i].contacts = contacts}

\* C11: insert_volunteer on a (full_name, contacts) pair that a volunteer
\* already carries fails with the duplicate report and changes no volunteer;
\* on a pair no volunteer carries it goes on to the INSERT, which adds
\* exactly one volunteer (Active, both counters 0, a fresh id) and changes no
\* other, so that the pair is present afterwards and a following call with
\* the same pair is a duplicate: two successive calls add exactly one.  The
\* add flow leaves the session Idle with empty scratch data however it ends.
C11_InsertVolunteer ==
    [][\A s \in Slots :
          LET t == tasks[s] IN
          /\ (t.pc = "add_volunteer" /\ tasks'[s].pc # t.pc /\ ~storage_error(s))
                => /\ volunteers' = volunteers /\ nextId' = nextId
                   /\ IF WithPair(volunteers, t.name, t.text) # {}
                      THEN /\ tasks'[s].pc = "idle"
                           /\ \E i \in 1..Len(sent') :
                                 sent'[i].kind = "duplicate" /\ sent'[i].to = t.p
                      ELSE /\ tasks'[s] = [t EXCEPT !.pc = "add_volunteer_insert"]
                           /\ \A i \in 1..Len(sent') : sent'[i].kind # "duplicate"
          /\ (t.pc = "add_volunteer_insert" /\ tasks'[s].pc # t.pc /\ t.name # None
              /\ ~storage_error(s))
                => /\ Cardinality(DOMAIN volunteers') = Cardinality(DOMAIN volunteers) + 1
                   /\ \A i \in DOMAIN volunteers :
                         i \in DOMAIN volunteers' /\ volunteers'[i] = volunteers[i]
                   /\ \E i \in DOMAIN volunteers' \ DOMAIN volunteers :
                         volunteers'[i] = Row(t.name, t.text, "Active", 0, 0)
                   /\ WithPair(volunteers', t.name, t.text) # {}
          /\ (t.pc \in {"add_volunteer", "add_volunteer_insert"} /\ tasks'[s].pc = "idle")
                => (fsmState'[t.p] = Idle /\ fsmData'[t.p] = NoData)
      ]_vars

\* an add flow on the pair of volunteer 1 has ended with the duplicate
\* report: the table is as it was and the session is Idle
C11_Witness ==
    /\ AllIdle
    /\ Len(sent) = 2 /\ sent[1].kind = "duplicate"
    /\ Cardinality(DOMAIN volunteers) = 2
    /\ WithPair(volunteers, "x", "1") = {1}
    /\ fsmState[sent[1].to] = Idle /\ fsmData[sent[1].to] = NoData

\* an add flow on a pair that differs from volunteer 1's in the contacts
\* only has ended with a third volunteer
C11_WitnessAdded ==
    /\ AllIdle
    /\ Len(sent) = 2 /\ sent[1].kind = "added"
    /\ DOMAIN volunteers = {1, 2, 3}
    /\ volunteers[3] = Row("x", "2", "Active", 0, 0)
    /\ fsmState[sent[1].to] = Idle /\ fsmData[sent[1].to] = NoData

\* C12: in AwaitingDeleteConfirm the session holds a volunteer_id;
\* confirm-yes takes that id, and its DELETE removes exactly the volunteer of
\* that id, every other volunteer and every blacklist entry staying as it
\* was, so that the id is not found afterwards; confirm-no changes no
\* volunteer and no blacklist entry.  Both leave the session Idle with empty
\* scratch data.
C12_ConfirmDelete ==
    [][/\ \A p \in Principals, s \in Slots :
             (fsmState[p] = DeleteVolunteerStates_confirm_delete
              /\ callbacks_confirm_delete_yes(p, s))
                => /\ Has(fsmData[p], "volunteer_id")
                   /\ tasks'[s].pc = "delete" /\ tasks'[s].p = p
                   /\ tasks'[s].vid = fsmData[p].volunteer_id
                   /\ volunteers' = volunteers /\ blacklist' = blacklist
       /\ \A s \in Slots :
             (tasks[s].pc = "delete" /\ tasks'[s].pc # "delete" /\ ~storage_error(s))
                => /\ DOMAIN volunteers' = DOMAIN volunteers \ {tasks[s].vid}
                   /\ \A i \in DOMAIN volunteers' : volunteers'[i] = volunteers[i]
                   /\ blacklist' = blacklist
                   /\ ~Exists(volunteers', tasks[s].vid)
                   /\ fsmState'[tasks[s].p] = Idle /\ fsmData'[tasks[s].p] = NoData
       /\ \A p \in Principals :
             (fsmState[p] = DeleteVolunteerStates_confirm_delete
              /\ callbacks_confirm_delete_no(p))
                => /\ volunteers' = volunteers /\ blacklist' = blacklist
                   /\ fsmState'[p] = Idle /\ fsmData'[p] = NoData
      ]_vars

\* a delete flow on volunteer 1 went through the confirmation and has ended:
\* volunteer 2 and its blacklist entry are as they were, the session is Idle
C12_Witness ==
    /\ AllIdle /\ nEvents = 3
    /\ sent = <<Msg(1, "deleted")>>
    /\ DOMAIN volunteers = {2}
    /\ volunteers[2] = Row("Bob", "1", "Blacklisted", 1, 2)
    /\ Len(blacklist) = 1
    /\ fsmState = [p \in Principals |-> Idle] /\ fsmData[1] = NoData

\* confirm-yes was received in AwaitingDeleteConfirm and waits at its DELETE
C12_WitnessPending ==
    \E s \in Slots :
        /\ tasks[s].pc = "delete" /\ tasks[s].vid = 1
        /\ fsmState[tasks[s].p] = DeleteVolunteerStates_confirm_delete
        /\ fsmData[tasks[s].p] = update_data(NoData, "volunteer_id", 1)

\* confirm-no was received in AwaitingDeleteConfirm
C12_WitnessNo ==
    /\ nEvents = 3 /\ sent = <<Msg(1, "cancelled")>>
    /\ fsmState[1] = Idle /\ fsmData[1] = NoData
    /\ DOMAIN volunteers = {1, 2}

\* the steps of a handler that lie after its first and before its last
\* mutation of the session or of the tables
MidMutationPcs == {"check_and_blacklist", "check_and_blacklist_status",
                   "check_and_blacklist_insert", "add_direct_blacklist_insert"}

\* C13: events of one principal never overlap: while a handler of a
\* principal's event is between its first and its last mutation, no text
\* event of that principal is handled (each reads the session state), no
\* callback event of it that reads or writes the session, and no other
\* suspended handler of it takes a step.
C13_NoOverlap ==
    [][\A s \in Slots :
          tasks[s].pc \in MidMutationPcs =>
              LET p == tasks[s].p IN
              /\ ~message(p)
              /\ ~\E token \in FlowTokens : callbacks_flow(p, token)
              /\ ~\E token \in EditTokens : callbacks_edit_field(p, token)
              /\ ~callbacks_confirm_delete_no(p)
              /\ ~\E s2 \in Slots : callbacks_confirm_delete_yes(p, s2)
              /\ \A s2 \in Slots \ {s} :
                    tasks[s2].p = p => tasks'[s2] = tasks[s2]
      ]_vars

\* C14: when a database call of a handler raises, a failure message is
\* rendered to the principal of the event and that principal's session ends
\* Idle with empty scratch data, whatever state it was in.
C14_StorageErrorHandled ==
    [][/\ \A s \in Slots :
             storage_error(s) =>
                 /\ \E i \in 1..Len(sent') :
                       sent'[i].to = tasks[s].p /\ sent'[i].kind = "failure"
                 /\ fsmState'[tasks[s].p] = Idle /\ fsmData'[tasks[s].p] = NoData
       /\ \A p \in Principals, token \in ListTokens \cup {"menu_statistics"} :
             callbacks_storage_error(p, token) =>
                 /\ \E i \in 1..Len(sent') :
                       sent'[i].to = p /\ sent'[i].kind = "failure"
                 /\ fsmState'[p] = Idle /\ fsmData'[p] = NoData
      ]_vars

\* C14, the part on the session alone: after a database call of a handler
\* raised, the principal's session is Idle with empty scratch data.
C14_SessionIdleAfterError ==
    [][\A s \in Slots :
          storage_error(s) =>
              (fsmState'[tasks[s].p] = Idle /\ fsmData'[tasks[s].p] = NoData)]_vars

\* the columns the edit flow offers
AllowedFields == {"full_name", "contacts"}

\* C15: every UPDATE of the edit flow targets full_name or contacts: no
\* handler reaches the UPDATE with any other column name, so status,
\* lateness_count and the other columns are never its target.
C15_AllowListedFields ==
    \A s \in Slots :
        tasks[s].pc = "update_field" => tasks[s].field \in AllowedFields

\* C15, on the table: no step of the edit flow's UPDATE changes a column
\* other than full_name and contacts.
C15_OnlyAllowedColumnsChange ==
    [][\A s \in Slots :
          (tasks[s].pc = "update_field" /\ tasks'[s].pc = "idle") =>
              \A i \in DOMAIN volunteers :
                  /\ i \in DOMAIN volunteers'
                  /\ volunteers'[i].status = volunteers[i].status
                  /\ volunteers'[i].lateness_count = volunteers[i].lateness_count
                  /\ volunteers'[i].warnings_count = volunteers[i].warnings_count
      ]_vars

\* the step left p's session and both tables as they were
Ignored(p) ==
    /\ fsmState'[p] = fsmState[p] /\ fsmData'[p] = fsmData[p]
    /\ volunteers' = volunteers /\ blacklist' = blacklist

\* C16: an event for which the session state defines no transition changes
\* nothing: confirm-yes and confirm-no outside AwaitingDeleteConfirm, an
\* edit_field_<name> token outside AwaitingEditField, a flow-opening menu
\* token outside Idle, and a text in Idle, AwaitingEditField or
\* AwaitingDeleteConfirm leave session state, scratch data, volunteers and
\* blacklist unchanged.
C16_UndefinedEventsIgnored ==
    [][\A p \in Principals :
          /\ (fsmState[p] # DeleteVolunteerStates_confirm_delete
              /\ (callbacks_confirm_delete_no(p)
                  \/ \E s \in Slots : callbacks_confirm_delete_yes(p, s)))
                => Ignored(p)
          /\ (fsmState[p] # EditVolunteerStates_waiting_for_field
              /\ \E token \in EditTokens : callbacks_edit_field(p, token))
                => Ignored(p)
          /\ (fsmState[p] # Idle /\ \E token \in FlowTokens : callbacks_flow(p, token))
                => Ignored(p)
          /\ (fsmState[p] \in NoBranchStates /\ message(p))
                => Ignored(p)
      ]_vars

\* C16, its last sentence: a confirm-yes received outside
\* AwaitingDeleteConfirm never goes on to delete a volunteer.
C16_DeleteOnlyAfterConfirm ==
    [][\A p \in Principals, s \in Slots :
          (fsmState[p] # DeleteVolunteerStates_confirm_delete
           /\ callbacks_confirm_delete_yes(p, s))
              => ~Exists(volunteers, tasks'[s].vid)]_vars

\* C17: a numeric id submitted in AwaitingLatenessId / AwaitingWarningId
\* starts the ledger operation of that state, and a reason submitted in
\* AwaitingBlacklistReason starts the manual blacklist with the stored id;
\* a started operation stays a ledger operation until it ends, and when it
\* ends, with success or with not-found, the session of its principal is
\* Idle with empty scratch data.  A numeric id submitted in
\* AwaitingBlacklistId stores the id and moves to AwaitingBlacklistReason,
\* the only state from which the manual blacklist starts.
C17_LedgerFlowsEndIdle ==
    [][/\ \A s \in Slots :
             LET t == tasks[s] IN
             (t.pc \in LedgerPcs /\ tasks'[s] # t /\ ~storage_error(s)) =>
                 IF tasks'[s].pc = "idle"
                 THEN /\ fsmState'[t.p] = Idle /\ fsmData'[t.p] = NoData
                      /\ sent'[1].to = t.p
                      /\ sent'[1].kind \in {"not_found", "recorded", "promoted", "blacklisted"}
                 ELSE tasks'[s].pc \in LedgerPcs /\ tasks'[s].p = t.p
       /\ \A p \in Principals, text \in Texts :
             /\ (fsmState[p] \in ViolationStates /\ IsInt(text) /\ handle_messages(p, text))
                   => \E s \in Slots :
                         /\ tasks[s].pc = "idle" /\ tasks'[s].p = p
                         /\ tasks'[s].vid = int(text)
                         /\ tasks'[s].pc = IF fsmState[p] = LatenessStates_waiting_for_id
                                           THEN "add_lateness" ELSE "add_warning"
             /\ (fsmState[p] = BlacklistDirectStates_waiting_for_id /\ IsInt(text)
                 /\ handle_messages(p, text))
                   => /\ fsmState'[p] = BlacklistDirectStates_waiting_for_reason
                      /\ Has(fsmData'[p], "volunteer_id")
                      /\ fsmData'[p].volunteer_id = int(text)
                      /\ tasks' = tasks
             /\ (fsmState[p] = BlacklistDirectStates_waiting_for_reason
                 /\ handle_messages(p, text))
                   => /\ Has(fsmData[p], "volunteer_id")
                      /\ \E s \in Slots :
                            /\ tasks[s].pc = "idle" /\ tasks'[s].p = p
                            /\ tasks'[s].pc = "add_direct_blacklist"
                            /\ tasks'[s].vid = fsmData[p].volunteer_id
                            /\ tasks'[s].text = text
       /\ \A s \in Slots :
             (tasks[s].pc = "idle" /\ tasks'[s].pc = "add_direct_blacklist")
                 => fsmState[tasks'[s].p] = BlacklistDirectStates_waiting_for_reason
      ]_vars

\* a manual-blacklist flow (menu, id, reason) has ended with success: the
\* session of its principal is Idle with empty scratch data
C17_Witness ==
    /\ AllIdle /\ nEvents = 3
    /\ Len(sent) = 2 /\ sent[1] = Msg(1, "blacklisted")
    /\ fsmState[1] = Idle /\ fsmData[1] = NoData
    /\ 1 \in manual

\* a lateness flow on an id no volunteer has ended with not-found
C17_WitnessNotFound ==
    /\ AllIdle /\ nEvents = 2
    /\ Len(sent) = 2 /\ sent[1] = Msg(1, "not_found")
    /\ volunteers = NoRows
    /\ fsmState[1] = Idle /\ fsmData[1] = NoData

\* C18: in AwaitingDeleteId a numeric id starts the lookup of that id, which
\* changes nothing; the lookup moves the session to AwaitingDeleteConfirm
\* with the id stored exactly when a volunteer of that id exists at that
\* moment, and otherwise leaves it Idle with empty scratch data and renders
\* not-found; in neither case is a volunteer or a blacklist entry changed.
C18_DeleteLookup ==
    [][/\ \A p \in Principals, text \in Texts :
             (fsmState[p] = DeleteVolunteerStates_waiting_for_id /\ IsInt(text)
              /\ handle_messages(p, text))
                => /\ \E s \in Slots :
                         /\ tasks[s].pc = "idle" /\ tasks'[s].pc = "delete_select"
                         /\ tasks'[s].p = p /\ tasks'[s].vid = int(text)
                   /\ UNCHANGED <<volunteers, blacklist, fsmState, fsmData>>
       /\ \A s \in Slots :
             LET t == tasks[s] IN
             (t.pc = "delete_select" /\ tasks'[s] # t /\ ~storage_error(s))
                => /\ tasks'[s].pc = "idle"
                   /\ volunteers' = volunteers /\ blacklist' = blacklist
                   /\ IF t.vid \in DOMAIN volunteers
                      THEN /\ fsmState'[t.p] = DeleteVolunteerStates_confirm_delete
                           /\ Has(fsmData'[t.p], "volunteer_id")
                           /\ fsmData'[t.p].volunteer_id = t.vid
                           /\ sent' = <<Msg(t.p, "confirm")>>
                      ELSE /\ fsmState'[t.p] = Idle /\ fsmData'[t.p] = NoData
                           /\ sent' = <<Msg(t.p, "not_found")>>
      ]_vars

\* the lookup found volunteer 2: AwaitingDeleteConfirm with the id stored
C18_Witness ==
    /\ AllIdle /\ nEvents = 2
    /\ sent = <<Msg(1, "confirm")>>
    /\ fsmState[1] = DeleteVolunteerStates_confirm_delete
    /\ fsmData[1] = update_data(NoData, "volunteer_id", 2)
    /\ Exists(volunteers, 2)

\* the lookup found no volunteer of the id: Idle, not-found
C18_WitnessNotFound ==
    /\ AllIdle /\ nEvents = 2
    /\ sent = <<Msg(1, "not_found")>>
    /\ fsmState[1] = Idle /\ fsmData[1] = NoData
    /\ ~Exists(volunteers, 1) /\ ~Exists(volunteers, 2)

\* C19: whenever no ledger operation is in progress, every volunteer whose
\* status is Blacklisted has a blacklist entry under its current full_name.
C19_BlacklistedHasEntry ==
    NoLedgerInProgress =>
        \A i \in DOMAIN volunteers :
            volunteers[i].status = "Blacklisted"
                => HasEntry(blacklist, volunteers[i].full_name)

\* C20: a session in a state whose handler reads scratch data holds the keys
\* that handler reads: volunteer_id and field in AwaitingEditValue,
\* volunteer_id in AwaitingBlacklistReason and AwaitingDeleteConfirm,
\* full_name in AwaitingAddContact.
C20_ScratchKeysPresent ==
    \A p \in Principals :
        /\ fsmState[p] = EditVolunteerStates_waiting_for_new_value
              => (Has(fsmData[p], "volunteer_id") /\ Has(fsmData[p], "field"))
        /\ fsmState[p] \in {BlacklistDirectStates_waiting_for_reason,
                            DeleteVolunteerStates_confirm_delete}
              => Has(fsmData[p], "volunteer_id")
        /\ fsmState[p] = AddVolunteerStates_waiting_for_contact
              => Has(fsmData[p], "full_name")

\* C20, its consequence: no text event ends in an exception raised on a
\* missing key with the session left outside Idle.
C20_NoKeyError ==
    [][\A p \in Principals, text \in Texts :
          (handle_messages(p, text) /\ tasks' = tasks)
              => ~(sent' = <<Raised(p)>> /\ fsmState'[p] # Idle)]_vars

\* C20 without AwaitingEditValue: the three other states hold their keys
C20_OtherStatesHoldKeys ==
    \A p \in Principals :
        /\ fsmState[p] \in {BlacklistDirectStates_waiting_for_reason,
                            DeleteVolunteerStates_confirm_delete}
              => Has(fsmData[p], "volunteer_id")
        /\ fsmState[p] = AddVolunteerStates_waiting_for_contact
              => Has(fsmData[p], "full_name")

\* Two principals have each selected menu_add_volunteer and sent the same
\* full_name: both sessions await the contact.  The tables hold rows.
InitAdd ==
    /\ \E d \in InitDBs :
          /\ d.volunteers # NoRows
          /\ volunteers = d.volunteers
          /\ nextId = d.nextId
          /\ blacklist = d.blacklist
    /\ manual = {}
    /\ fsmState = [p \in Principals |-> AddVolunteerStates_waiting_for_contact]
    /\ fsmData = [p \in Principals |-> update_data(NoData, "full_name", "x")]
    /\ tasks = [s \in Slots |-> IdleTask]
    /\ sent = <<>>
    /\ nEvents = 0

SpecAdd == InitAdd /\ [][Next]_vars

\* C21: no two volunteers have the same (full_name, contacts) pair.
C21_UniquePair ==
    \A i, j \in DOMAIN volunteers :
        (volunteers[i].full_name = volunteers[j].full_name
         /\ volunteers[i].contacts = volunteers[j].contacts) => i = j

\* C21, for the add flows alone: no INSERT of the add flow runs while a
\* volunteer carries its pair.
C21_InsertOnFreshPair ==
    [][\A s \in Slots :
          (tasks[s].pc = "add_volunteer_insert" /\ tasks'[s].pc = "idle"
           /\ volunteers' # volunteers)
              => WithPair(volunteers, tasks[s].name, tasks[s].text) = {}]_vars

====
